---- MODULE Spec2Model ----
(***************************************************************************)
(* Model of the prefixed logrus TextFormatter (formatter.go).              *)
(*                                                                         *)
(* Text is a sequence of byte values (Go strings are byte strings), so     *)
(* that sorting, quoting, trimming and length arithmetic are computed as   *)
(* the code computes them.  One Format call is one step; the map           *)
(* iteration order, which Go leaves unspecified, is an input of the step.  *)
(***************************************************************************)
EXTENDS Integers, Sequences, FiniteSets, TLC

VARIABLES
    cfg,        \* the TextFormatter's fields
    isTerminal, \* package variable set once by init()
    entry,      \* the logrus.Entry passed to Format: Time, Level, Message, Data
    orig,       \* the Data mapping as the caller built it
    elapsed,    \* seconds since baseTimestamp last observed by miniTS()
    calls,      \* number of Format calls made on the entry
    arg,        \* the entry as it was when the last Format call began
    out,        \* bytes returned by the last Format call
    log,        \* the writes the last Format call made to its buffer, in order
    prevArg,    \* the entry as it was when the call before the last began
    prevOut     \* bytes returned by the call before the last

vars == <<cfg, isTerminal, entry, orig, elapsed, calls, arg, out, log, prevArg, prevOut>>

(***************************************************************************)
(* Bounds of the model.                                                    *)
(***************************************************************************)
MaxCalls == 3
MaxElapsed == 1

(***************************************************************************)
(* Byte strings.                                                           *)
(***************************************************************************)
RECURSIVE Flatten(_)
Flatten(ss) == IF ss = <<>> THEN <<>> ELSE Head(ss) \o Flatten(Tail(ss))

Min(a, b) == IF a < b THEN a ELSE b

\* strings.Repeat(" ", n)
Spaces(n) == [i \in 1..n |-> 32]

\* a comparison that orders by length before content
LessByLength(a, b) ==
    \/ Len(a) < Len(b)
    \/ /\ Len(a) = Len(b)
       /\ \E i \in 1..Len(a) :
            /\ \A j \in 1..(i-1) : a[j] = b[j]
            /\ a[i] < b[i]

\* Go's < on strings: byte-wise lexicographic
Less(a, b) ==
    \E i \in 1..(Min(Len(a), Len(b)) + 1) :
        /\ \A j \in 1..(i-1) : a[j] = b[j]
        /\ \/ i > Len(a) /\ i <= Len(b)
           \/ i <= Len(a) /\ i <= Len(b) /\ a[i] < b[i]

RECURSIVE Insert(_, _)
Insert(k, sorted) ==
    IF sorted = <<>> THEN <<k>>
    ELSE IF Less(k, Head(sorted)) THEN <<k>> \o sorted
    ELSE <<Head(sorted)>> \o Insert(k, Tail(sorted))

\* sort.Strings(keys)
RECURSIVE SortStrings(_)
SortStrings(keys) ==
    IF keys = <<>> THEN <<>> ELSE Insert(Head(keys), SortStrings(Tail(keys)))

\* strings.ContainsRune(s, c)
ContainsRune(s, c) == \E i \in 1..Len(s) : s[i] = c

\* s[from:] of Go, with positions counted from 1
From(s, from) == SubSeq(s, from, Len(s))

(***************************************************************************)
(* Text literals of the program.                                           *)
(***************************************************************************)
sTime == <<116, 105, 109, 101>>                          \* "time"
sMsg == <<109, 115, 103>>                                \* "msg"
sLevel == <<108, 101, 118, 101, 108>>                    \* "level"
sPrefix == <<112, 114, 101, 102, 105, 120>>              \* "prefix"
sFields == <<102, 105, 101, 108, 100, 115, 46>>          \* "fields."
sFieldsTime == sFields \o sTime                          \* "fields.time"
sFieldsMsg == sFields \o sMsg                            \* "fields.msg"
sFieldsLevel == sFields \o sLevel                        \* "fields.level"

sWARN == <<87, 65, 82, 78>>                                   \* "WARN"
sStamp == <<74, 97, 110, 32, 32, 50, 32, 49, 53, 58, 48, 52, 58, 48, 53>>  \* "Jan  2 15:04:05"
sCaller == <<32, 91, 109, 97, 105, 110, 46, 102, 93, 91, 109, 46, 103, 111, 93, 91, 55, 93>>  \* " [main.f][m.go][7]"

\* github.com/mgutz/ansi escape sequences used by the formatter
reset == <<27, 91, 48, 109>>                             \* ansi.Reset
ansiGreen == <<27, 91, 51, 50, 109>>
ansiYellow == <<27, 91, 51, 51, 109>>
ansiRed == <<27, 91, 51, 49, 109>>
ansiBlue == <<27, 91, 51, 52, 109>>
ansiCyan == <<27, 91, 51, 54, 109>>
ansiLightBlack == <<27, 91, 57, 48, 109>>

(***************************************************************************)
(* Values of the Data mapping (interface{}): a string, an error or an int. *)
(***************************************************************************)
StringValue(t) == [kind |-> "string", text |-> t, n |-> 0]
ErrorValue(t) == [kind |-> "error", text |-> t, n |-> 0]
IntValue(i) == [kind |-> "int", text |-> <<>>, n |-> i]

\* strconv.Itoa for n >= 0
RECURSIVE Itoa(_)
Itoa(n) == IF n < 10 THEN <<48 + n>> ELSE Itoa(n \div 10) \o <<48 + (n % 10)>>

\* fmt's %04d for n >= 0
Pad04(n) == LET d == Itoa(n) IN [i \in 1..(4 - Len(d)) |-> 48] \o d

\* fmt's default conversion (Fprint, %v, %+v) of a value
Sprint(v) ==
    CASE v.kind = "string" -> v.text
      [] v.kind = "error" -> v.text
      [] OTHER -> Itoa(v.n)

\* fmt's %q of a string over printable ASCII, \t, \n and \r
EscapeByte(c) ==
    CASE c = 34 -> <<92, 34>>
      [] c = 92 -> <<92, 92>>
      [] c = 10 -> <<92, 110>>
      [] c = 13 -> <<92, 114>>
      [] c = 9 -> <<92, 116>>
      [] OTHER -> <<c>>

Quote(t) == <<34>> \o Flatten([i \in 1..Len(t) |-> EscapeByte(t[i])]) \o <<34>>

\* needsQuoting without the '.' alternative
needsQuotingNoDot(text) ==
    \A i \in 1..Len(text) :
        LET ch == text[i] IN
            \/ (ch >= 97 /\ ch <= 122)
            \/ (ch >= 65 /\ ch <= 90)
            \/ (ch >= 48 /\ ch <= 57)
            \/ ch = 45

\* needsQuoting: true when every character is a letter, a digit, '-' or '.'
needsQuoting(text) ==
    \A i \in 1..Len(text) :
        LET ch == text[i] IN
            \/ (ch >= 97 /\ ch <= 122)
            \/ (ch >= 65 /\ ch <= 90)
            \/ (ch >= 48 /\ ch <= 57)
            \/ ch = 45
            \/ ch = 46

\* the bytes appendKeyValue writes to the buffer
appendKeyValue(key, value) ==
    key \o <<61>> \o
    (CASE value.kind = "string" ->
            IF needsQuoting(value.text) THEN value.text ELSE Quote(value.text)
       [] value.kind = "error" ->
            IF needsQuoting(value.text) THEN value.text ELSE Quote(value.text)
       [] OTHER -> Sprint(value))
    \o <<32>>

(***************************************************************************)
(* The Data mapping.                                                       *)
(***************************************************************************)
Put(data, k, v) == [x \in (DOMAIN data) \cup {k} |-> IF x = k THEN v ELSE data[x]]

\* prefixFieldClashes that goes on to treat fields.time as a clash of its own
prefixFieldClashesAgain(data) ==
    LET d1 == IF sTime \in DOMAIN data THEN Put(data, sFieldsTime, data[sTime]) ELSE data
        d2 == IF sMsg \in DOMAIN d1 THEN Put(d1, sFieldsMsg, d1[sMsg]) ELSE d1
        d3 == IF sLevel \in DOMAIN d2 THEN Put(d2, sFieldsLevel, d2[sLevel]) ELSE d2
    IN IF sFieldsTime \in DOMAIN d3
       THEN Put(d3, sFields \o sFieldsTime, d3[sFieldsTime])
       ELSE d3

prefixFieldClashes(data) ==
    LET d1 == IF sTime \in DOMAIN data THEN Put(data, sFieldsTime, data[sTime]) ELSE data
        d2 == IF sMsg \in DOMAIN d1 THEN Put(d1, sFieldsMsg, d1[sMsg]) ELSE d1
        d3 == IF sLevel \in DOMAIN d2 THEN Put(d2, sFieldsLevel, d2[sLevel]) ELSE d2
    IN d3

(***************************************************************************)
(* logrus.Level and time.Time.                                             *)
(***************************************************************************)
\* logrus.Level.String()
LevelString(level) ==
    CASE level = "DebugLevel" -> <<100, 101, 98, 117, 103>>
      [] level = "InfoLevel" -> <<105, 110, 102, 111>>
      [] level = "WarnLevel" -> <<119, 97, 114, 110, 105, 110, 103>>
      [] level = "ErrorLevel" -> <<101, 114, 114, 111, 114>>
      [] level = "FatalLevel" -> <<102, 97, 116, 97, 108>>
      [] level = "PanicLevel" -> <<112, 97, 110, 105, 99>>
      [] OTHER -> <<117, 110, 107, 110, 111, 119, 110>>

\* strings.ToUpper over ASCII
ToUpper(s) == [i \in 1..Len(s) |-> IF s[i] >= 97 /\ s[i] <= 122 THEN s[i] - 32 ELSE s[i]]

\* entry.Time.Format(layout) for the instant Jan 2 15:04:05: the layout time.Stamp
\* gives "Jan  2 15:04:05", the layout time.Kitchen gives "3:04PM"
FormatTime(t, layout) ==
    IF layout = "Jan _2 15:04:05" THEN sStamp ELSE <<51, 58, 48, 52, 80, 77>>

(***************************************************************************)
(* extractPrefix: the regular expression ^\[(.*?)\] matches when the text  *)
(* starts with '[' and a ']' follows with no newline in between ('.' does  *)
(* not match a newline); being lazy, it stops at the first ']'.            *)
(***************************************************************************)
IsSpace(c) == c \in {9, 10, 11, 12, 13, 32}

RECURSIVE TrimLeft(_)
TrimLeft(s) == IF s # <<>> /\ IsSpace(Head(s)) THEN TrimLeft(Tail(s)) ELSE s

RECURSIVE TrimRight(_)
TrimRight(s) ==
    IF s # <<>> /\ IsSpace(s[Len(s)]) THEN TrimRight(SubSeq(s, 1, Len(s) - 1)) ELSE s

\* strings.TrimSpace
TrimSpace(s) == TrimRight(TrimLeft(s))

\* positions j of a ']' that closes a match of ^\[(.*?)\]
Closers(msg) ==
    {j \in 2..Len(msg) : msg[j] = 93 /\ \A i \in 2..(j-1) : msg[i] # 10}

MatchString(msg) == msg # <<>> /\ msg[1] = 91 /\ Closers(msg) # {}

\* regex.FindString(msg), for a msg that matches
FindString(msg) ==
    LET j == CHOOSE c \in Closers(msg) : \A d \in Closers(msg) : c <= d
    IN SubSeq(msg, 1, j)

\* extractPrefix with the greedy expression ^\[(.*)\], which runs to the last ']'
extractPrefixGreedy(msg) ==
    IF MatchString(msg)
    THEN LET j == CHOOSE c \in Closers(msg) : \A d \in Closers(msg) : c >= d
         IN [prefix |-> SubSeq(msg, 2, j - 1), msg |-> TrimSpace(From(msg, j + 1))]
    ELSE [prefix |-> <<>>, msg |-> msg]

extractPrefix(msg) ==
    IF MatchString(msg)
    THEN LET match == FindString(msg)
         IN [prefix |-> SubSeq(match, 2, Len(match) - 1),
             msg |-> TrimSpace(From(msg, Len(match) + 1))]
    ELSE [prefix |-> <<>>, msg |-> msg]

(***************************************************************************)
(* printColored                                                            *)
(***************************************************************************)
levelColorOf(level) ==
    CASE level = "InfoLevel" -> ansiGreen
      [] level = "WarnLevel" -> ansiYellow
      [] level \in {"ErrorLevel", "FatalLevel", "PanicLevel"} -> ansiRed
      [] OTHER -> ansiBlue

\* runtime.Caller(6) is the one caller of the model
debugInfOf(level) == IF level = "DebugLevel" THEN sCaller ELSE <<>>

levelTextOf(level) ==
    IF level # "WarnLevel" THEN ToUpper(LevelString(level)) ELSE sWARN

\* the locals prefix and message after lines 139-147
prefixOf(e) ==
    IF sPrefix \in DOMAIN e.Data
    THEN [prefix |-> <<32>> \o ansiCyan \o Sprint(e.Data[sPrefix]) \o <<58>> \o reset,
          message |-> e.Message]
    ELSE LET x == extractPrefix(e.Message)
         IN IF Len(x.prefix) > 0
            THEN [prefix |-> <<32>> \o ansiCyan \o x.prefix \o <<58>> \o reset,
                  message |-> x.msg]
            ELSE [prefix |-> <<>>, message |-> e.Message]

\* fmt's %+5s and %-Ns
PadLeft(s, w) == Spaces(w - Len(s)) \o s
PadRight(s, w) == s \o Spaces(w - Len(s))

\* the header written by the first Fprintf (lines 157-170)
Header(f, e, timestampFormat, secs) ==
    LET tail == reset \o <<32>> \o levelColorOf(e.Level)
                \o PadLeft(levelTextOf(e.Level), 5) \o reset
                \o debugInfOf(e.Level) \o prefixOf(e).prefix \o <<32>>
    IN IF f.DisableTimestamp THEN ansiLightBlack \o tail
       ELSE IF f.ShortTimestamp
            THEN ansiLightBlack \o <<91>> \o Pad04(secs) \o <<93>> \o tail
            ELSE ansiLightBlack \o <<91>> \o FormatTime(e.Time, timestampFormat)
                 \o <<93>> \o tail

\* padlen without the correction for the prefix's control characters
IndentWidthNoPrefix(padlen, levelColor, prefix) ==
    padlen - (Len(ansiLightBlack) + Len(levelColor) + 2 * Len(reset))

\* padlen after lines 174-177
IndentWidth(padlen, levelColor, prefix) ==
    LET p1 == padlen - (Len(ansiLightBlack) + Len(levelColor) + 2 * Len(reset))
    IN IF prefix # <<>> THEN p1 - (Len(ansiCyan) + Len(reset)) ELSE p1

\* strings.Replace(message, "\n", "\n" + strings.Repeat(" ", n), -1)
RECURSIVE IndentLines(_, _)
IndentLines(message, n) ==
    IF message = <<>> THEN <<>>
    ELSE IF Head(message) = 10
         THEN <<10>> \o Spaces(n) \o IndentLines(Tail(message), n)
         ELSE <<Head(message)>> \o IndentLines(Tail(message), n)

\* the bytes the message Fprintf writes (lines 149-152, 172-182)
MessageBytes(f, e, padlen) ==
    LET message == prefixOf(e).message
        text == IF f.IndentMultilineMessage /\ ContainsRune(message, 10)
                THEN IndentLines(message,
                        IndentWidth(padlen, levelColorOf(e.Level), prefixOf(e).prefix))
                ELSE message
    IN IF f.SpacePadding # 0 THEN PadRight(text, f.SpacePadding) ELSE text

Write(op, key, bytes) == [op |-> op, key |-> key, bytes |-> bytes]

\* the writes printColored makes
printColored(f, e, keys, timestampFormat, secs) ==
    LET header == Header(f, e, timestampFormat, secs)
    IN <<Write("header", <<>>, header),
         Write("message", <<>>, MessageBytes(f, e, Len(header)))>>
       \o [i \in 1..Len(keys) |->
             Write("field", keys[i],
                   <<32>> \o levelColorOf(e.Level) \o keys[i] \o reset \o <<61>>
                   \o Sprint(e.Data[keys[i]]))]

(***************************************************************************)
(* Format                                                                  *)
(***************************************************************************)
GOOS == "linux"

\* isColored of lines 83-84
isColored(f) ==
    LET isColorTerminal == isTerminal /\ (GOOS # "windows")
    IN (f.ForceColors \/ isColorTerminal) /\ ~f.DisableColors

\* lines 86-89
timestampFormatOf(f) ==
    IF f.TimestampFormat = "" THEN "Jan _2 15:04:05" ELSE f.TimestampFormat

\* lines 68-73: the keys in the order the range loop yields them, "prefix" left out
RECURSIVE CollectKeys(_)
CollectKeys(order) ==
    IF order = <<>> THEN <<>>
    ELSE IF Head(order) # sPrefix
         THEN <<Head(order)>> \o CollectKeys(Tail(order))
         ELSE CollectKeys(Tail(order))

\* the keys left as collected whatever DisableSorting says
SortedKeysNever(f, keys) == keys

\* lines 75-77
SortedKeys(f, keys) == IF ~f.DisableSorting THEN SortStrings(keys) ELSE keys

\* lines 94-103: the writes of the non-colored branch
printPlain(f, e, keys, timestampFormat) ==
    (IF ~f.DisableTimestamp
     THEN <<Write("appendKeyValue", sTime,
                  appendKeyValue(sTime, StringValue(FormatTime(e.Time, timestampFormat))))>>
     ELSE <<>>)
    \o <<Write("appendKeyValue", sLevel,
               appendKeyValue(sLevel, StringValue(LevelString(e.Level))))>>
    \o (IF e.Message # <<>>
        THEN <<Write("appendKeyValue", sMsg, appendKeyValue(sMsg, StringValue(e.Message)))>>
        ELSE <<>>)
    \o [i \in 1..Len(keys) |->
          Write("appendKeyValue", keys[i], appendKeyValue(keys[i], e.Data[keys[i]]))]

\* the writes of one Format call on entry e whose Data is already past
\* prefixFieldClashes; keys were collected before it
FormatWrites(f, e, keys, secs) ==
    (IF isColored(f)
     THEN printColored(f, e, keys, timestampFormatOf(f), secs)
     ELSE printPlain(f, e, keys, timestampFormatOf(f)))
    \o <<Write("WriteByte", <<>>, <<10>>)>>

Bytes(writes) == Flatten([i \in 1..Len(writes) |-> writes[i].bytes])

\* the orders in which a range loop may yield the keys of a map
RECURSIVE Orders(_)
Orders(S) ==
    IF S = {} THEN {<<>>}
    ELSE UNION {{<<k>> \o o : o \in Orders(S \ {k})} : k \in S}

\* the call reads miniTS() only on the short-timestamp colored path (line 163)
ReadsClock(f) == isColored(f) /\ ~f.DisableTimestamp /\ f.ShortTimestamp

Format(order, secs) ==
    /\ calls < MaxCalls
    /\ secs \in (IF ReadsClock(cfg) THEN elapsed..MaxElapsed ELSE {elapsed})
    /\ LET keys == SortedKeys(cfg, CollectKeys(order))
           e == [entry EXCEPT !.Data = prefixFieldClashes(entry.Data)]
           writes == FormatWrites(cfg, e, keys, secs)
       IN /\ entry' = e
          /\ log' = writes
          /\ out' = Bytes(writes)
    /\ elapsed' = secs
    /\ calls' = calls + 1
    /\ arg' = entry
    /\ prevArg' = arg
    /\ prevOut' = out
    /\ UNCHANGED <<cfg, isTerminal, orig>>

(***************************************************************************)
(* Inputs.                                                                 *)
(***************************************************************************)
kA == <<97>>                                             \* "a"
kB == <<66>>                                             \* "B"

Values ==
    { StringValue(<<120, 45, 49, 46, 90>>),                  \* "x-1.Z"
      StringValue(<<97, 32, 98>>),                          \* "a b"
      StringValue(<<>>),                                 \* ""
      ErrorValue(<<101, 111, 102>>),                        \* "eof"
      ErrorValue(<<110, 111, 32, 34, 102, 34, 10>>),             \* "no \"f\"\n"
      IntValue(7) }

FewValues == {StringValue(<<120>>), IntValue(7)}         \* "x", 7

Domains ==
    { {}, {kA}, {sTime}, {sMsg}, {sLevel}, {sPrefix}, {sFieldsTime},
      {kA, kB}, {sTime, sFieldsTime}, {sTime, kA}, {sMsg, sLevel} }

FieldMaps ==
    UNION {[d -> Values] : d \in Domains} \cup [{sTime, sMsg, kB} -> FewValues]

UnsortedFieldMaps ==
    UNION {[d -> FewValues] : d \in {{sTime}, {kA, kB}, {kA, sPrefix}}}

ColoredFieldMaps ==
    UNION {[d -> {StringValue(<<120>>)}] : d \in {{}, {sPrefix}, {kA}, {sPrefix, sTime}}}
    \cup [{sPrefix} -> {IntValue(7)}]

PlainMessages == {<<>>, <<106, 111, 98, 32, 49>>}                  \* "", "job 1"

ColoredMessages ==
    { <<>>,
      <<106, 111, 98>>,                                   \* "job"
      <<91, 119, 111, 114, 107, 101, 114, 93, 32, 115, 116, 97, 114, 116, 101, 100, 32, 106, 111, 98>>,            \* "[worker] started job"
      <<91, 119, 93, 32, 32, 97, 32, 98, 32, 10>>,                   \* "[w]  a b \n"
      <<91, 93, 32, 120>>,                                \* "[] x"
      <<97, 10, 98>>,                                  \* "a\nb"
      <<91, 119, 93, 32, 97, 10, 98, 10, 99>>,                 \* "[w] a\nb\nc"
      <<91, 97, 93, 98, 93, 32, 99>>,                     \* "[a]b] c"
      <<91, 97, 10, 98, 93, 32, 99>>,                      \* "[a\nb] c"
      <<120, 32, 91, 119, 93>> }                               \* "x [w]"

Levels == {"InfoLevel", "WarnLevel", "ErrorLevel", "DebugLevel"}

Formatter(fc, dc, dt, st, ds, im, sp) ==
    [ForceColors |-> fc, DisableColors |-> dc, DisableTimestamp |-> dt,
     ShortTimestamp |-> st, DisableSorting |-> ds, IndentMultilineMessage |-> im,
     TimestampFormat |-> "", SpacePadding |-> sp]

Entry(level, message, data) ==
    [Time |-> "Jan 2 15:04:05", Level |-> level, Message |-> message, Data |-> data]

InitRest ==
    /\ orig = entry.Data
    /\ elapsed = 0
    /\ calls = 0
    /\ arg = entry
    /\ out = <<>>
    /\ log = <<>>
    /\ prevArg = entry
    /\ prevOut = <<>>

\* output not coloured: colours disabled, or neither forced nor a terminal
InitPlain ==
    /\ \E dc \in BOOLEAN, dt \in BOOLEAN :
          /\ cfg = Formatter(FALSE, dc, dt, FALSE, FALSE, FALSE, 0)
          /\ isTerminal = dc
    /\ \E m \in PlainMessages, d \in FieldMaps : entry = Entry("InfoLevel", m, d)
    /\ InitRest

\* output not coloured and the keys left in the order the map yields them
InitUnsorted ==
    /\ \E dc \in BOOLEAN, dt \in BOOLEAN :
          /\ cfg = Formatter(FALSE, dc, dt, FALSE, TRUE, FALSE, 0)
          /\ isTerminal = dc
    /\ \E m \in PlainMessages, d \in UnsortedFieldMaps : entry = Entry("InfoLevel", m, d)
    /\ InitRest

\* output coloured: colours forced, or the output is a terminal
InitColored ==
    /\ \E fc \in BOOLEAN, dt \in BOOLEAN, st \in BOOLEAN, im \in BOOLEAN, sp \in {0, 6} :
          /\ cfg = Formatter(fc, FALSE, dt, st, FALSE, im, sp)
          /\ isTerminal = ~fc
    /\ \E l \in Levels, m \in ColoredMessages, d \in ColoredFieldMaps :
          entry = Entry(l, m, d)
    /\ InitRest

Init == InitPlain \/ InitUnsorted \/ InitColored

Next ==
    \E order \in Orders(DOMAIN entry.Data), secs \in 0..MaxElapsed : Format(order, secs)

Spec == Init /\ [][Next]_vars

(***************************************************************************)
(* Vocabulary of the properties.                                           *)
(***************************************************************************)
Reserved == {sTime, sMsg, sLevel}

Called == calls >= 1

Plain == ~isColored(cfg)

\* the record's own value for a reserved key, as a value
OwnValue(name) ==
    CASE name = sTime -> StringValue(FormatTime(entry.Time, timestampFormatOf(cfg)))
      [] name = sLevel -> StringValue(LevelString(entry.Level))
      [] OTHER -> StringValue(entry.Message)

\* the bytes of one key/value pair of the output, by mode
RenderedPair(key, value) ==
    IF Plain THEN appendKeyValue(key, value)
    ELSE <<32>> \o levelColorOf(entry.Level) \o key \o reset \o <<61>> \o Sprint(value)

WritesOf(key) == {i \in 1..Len(log) : log[i].key = key}

\* number of pairs the non-colored branch writes for time, level and msg
ReservedWrites ==
    (IF cfg.DisableTimestamp THEN 0 ELSE 1) + 1 + (IF entry.Message = <<>> THEN 0 ELSE 1)

\* byte-wise order of two texts
RECURSIVE Before(_, _)
Before(a, b) ==
    IF a = <<>> THEN b # <<>>
    ELSE IF b = <<>> THEN FALSE
    ELSE IF Head(a) = Head(b) THEN Before(Tail(a), Tail(b))
    ELSE Head(a) < Head(b)

\* the texts of S in ascending byte-wise order
RECURSIVE Ascending(_)
Ascending(S) ==
    IF S = {} THEN <<>>
    ELSE LET m == CHOOSE x \in S : \A y \in S \ {x} : Before(x, y)
         IN <<m>> \o Ascending(S \ {m})

SafeBytes == (97..122) \cup (65..90) \cup (48..57) \cup {45, 46}

Verbatim(t) == \A i \in 1..Len(t) : t[i] \in SafeBytes

\* the value part of a pair of the non-colored output
ValueText(v) ==
    IF v.kind \in {"string", "error"}
    THEN IF Verbatim(v.text) THEN v.text ELSE Quote(v.text)
    ELSE Sprint(v)

Pair(key, v) == key \o <<61>> \o ValueText(v) \o <<32>>

\* the non-colored line for the field keys in the order ks
Template(ks) ==
    (IF cfg.DisableTimestamp THEN <<>> ELSE Pair(sTime, OwnValue(sTime)))
    \o Pair(sLevel, OwnValue(sLevel))
    \o (IF entry.Message = <<>> THEN <<>> ELSE Pair(sMsg, OwnValue(sMsg)))
    \o Flatten([i \in 1..Len(ks) |-> Pair(ks[i], entry.Data[ks[i]])])
    \o <<10>>

\* the field keys of the mapping handed to the last call, "prefix" left out
FieldKeys == (DOMAIN arg.Data) \ {sPrefix}

(***************************************************************************)
(* C1: every Format call on a record whose mapping has a key time, msg or  *)
(* level, the first call included, renders the key fields.<name> with the  *)
(* caller's original value for <name>.                                     *)
(***************************************************************************)
C1_RenamedCopyRendered ==
    Called =>
        \A name \in Reserved \cap DOMAIN orig :
            \E i \in WritesOf(sFields \o name) :
                log[i].bytes = RenderedPair(sFields \o name, orig[name])

(***************************************************************************)
(* C2: in non-colored output each of time=, level=, msg= occurs at most    *)
(* once and carries the record's own timestamp, level and message, never   *)
(* the caller-supplied value.                                              *)
(***************************************************************************)
C2_ReservedKeysOwn ==
    (Called /\ Plain) =>
        \A name \in Reserved :
            /\ Cardinality(WritesOf(name)) <= 1
            /\ \A i \in WritesOf(name) : log[i].bytes = appendKeyValue(name, OwnValue(name))

(***************************************************************************)
(* C3: with sorting enabled and the timestamp display fixed or disabled,   *)
(* the second Format call on a record returns the bytes the first returned.*)
(***************************************************************************)
C3_SecondCallSameBytes ==
    (calls = 2 /\ ~cfg.DisableSorting /\ ~ReadsClock(cfg)) => out = prevOut

(***************************************************************************)
(* C4: the non-colored output is time=<ts> (unless disableTimestamp),      *)
(* level=<lvl>, msg=<msg> (unless the message is empty), then one          *)
(* key=<value> per field key other than "prefix" (the value the mapping    *)
(* holds for the key when the pair is written), ascending byte-wise when   *)
(* sorting is enabled, every pair followed by one space, then a newline.   *)
(***************************************************************************)
C4_PlainTemplate ==
    (Called /\ Plain) =>
        IF cfg.DisableSorting
        THEN \E ks \in Orders(FieldKeys) : out = Template(ks)
        ELSE out = Template(Ascending(FieldKeys))

C4_Witness ==
    /\ Called /\ Plain /\ ~cfg.DisableSorting /\ ~cfg.DisableTimestamp
    /\ entry.Message # <<>>
    /\ Cardinality(FieldKeys) = 3
    /\ out = Template(<<kB, sMsg, sTime>>)

(***************************************************************************)
(* C5 as stated: with colors disabled, two Format calls on records of      *)
(* identical timestamp, level, message and mapping return identical bytes, *)
(* whether sorting is enabled or not.                                      *)
(***************************************************************************)
SameInput == calls >= 2 /\ arg = prevArg

C5_DeterministicAnyConfig ==
    (Plain /\ SameInput) => out = prevOut

(***************************************************************************)
(* C5 amended: with colors disabled and sorting enabled, two Format calls  *)
(* on records of identical content return identical bytes; with sorting    *)
(* disabled the fields appear, each once, in the unspecified order in      *)
(* which the map yields its keys.                                          *)
(***************************************************************************)
C5_DeterministicWhenSorted ==
    /\ (Plain /\ SameInput /\ ~cfg.DisableSorting) => out = prevOut
    /\ (Plain /\ Called /\ cfg.DisableSorting) =>
          \E ks \in Orders(FieldKeys) :
              ks = [i \in 1..(Len(log) - ReservedWrites - 1) |-> log[ReservedWrites + i].key]

C5_Witness ==
    /\ Plain /\ SameInput /\ ~cfg.DisableSorting
    /\ Cardinality(FieldKeys) >= 3
    /\ out = prevOut

(***************************************************************************)
(* C6: in non-colored output a string value, and an error value judged by  *)
(* its message, is written verbatim exactly when all its characters are    *)
(* ASCII letters, digits, '-' or '.' (the empty text included), and as a   *)
(* quoted, escaped literal otherwise; other values are written by default  *)
(* conversion.                                                             *)
(***************************************************************************)
FieldWrites == {i \in 1..Len(log) : log[i].op = "appendKeyValue" /\ i > ReservedWrites}

C6_QuotingRule ==
    (Called /\ Plain) =>
        \A i \in FieldWrites :
            LET v == entry.Data[log[i].key]
                t == v.text
            IN CASE v.kind \in {"string", "error"} /\ Verbatim(t) ->
                       log[i].bytes = log[i].key \o <<61>> \o t \o <<32>>
                 [] v.kind \in {"string", "error"} /\ ~Verbatim(t) ->
                       log[i].bytes = log[i].key \o <<61>> \o Quote(t) \o <<32>>
                 [] OTHER ->
                       log[i].bytes = log[i].key \o <<61>> \o Itoa(v.n) \o <<32>>

C6_Witness ==
    /\ Called /\ Plain
    /\ \E i \in FieldWrites, j \in FieldWrites :
          /\ entry.Data[log[i].key].kind = "error"
          /\ ~Verbatim(entry.Data[log[i].key].text)
          /\ entry.Data[log[j].key] = StringValue(<<>>)
          /\ log[j].bytes = log[j].key \o <<61, 32>>

(***************************************************************************)
(* Vocabulary of the colored output.                                       *)
(***************************************************************************)
Occurs(seg, text) ==
    \E i \in 1..(Len(text) - Len(seg) + 1) : SubSeq(text, i, i + Len(seg) - 1) = seg

\* the text without its color-control sequences (ESC ... m)
RECURSIVE StripControl(_, _)
StripControl(text, inside) ==
    IF text = <<>> THEN <<>>
    ELSE IF inside
         THEN StripControl(Tail(text), Head(text) # 109)
         ELSE IF Head(text) = 27
              THEN StripControl(Tail(text), TRUE)
              ELSE <<Head(text)>> \o StripControl(Tail(text), FALSE)

VisibleWidth(header) == Len(StripControl(header, FALSE))

Blank(c) == c \in {9, 10, 11, 12, 13, 32}

StripLeading(t) ==
    LET inked == {i \in 1..Len(t) : ~Blank(t[i])}
    IN IF inked = {} THEN <<>>
       ELSE SubSeq(t, CHOOSE i \in inked : \A j \in inked : i <= j, Len(t))

StripBoth(t) ==
    LET inked == {i \in 1..Len(t) : ~Blank(t[i])}
    IN IF inked = {} THEN <<>>
       ELSE SubSeq(t, CHOOSE i \in inked : \A j \in inked : i <= j,
                      CHOOSE i \in inked : \A j \in inked : i >= j)

\* position of the first ']' of the text, 0 when it has none
FirstCloser(t) ==
    LET cs == {i \in 1..Len(t) : t[i] = 93}
    IN IF cs = {} THEN 0 ELSE CHOOSE i \in cs : \A j \in cs : i <= j

\* the message starts with [<tag>], <tag> not empty and on one line
StartsWithTag(t) ==
    /\ t # <<>> /\ t[1] = 91
    /\ FirstCloser(t) > 2
    /\ \A i \in 2..(FirstCloser(t) - 1) : t[i] # 10

TagOf(t) == SubSeq(t, 2, FirstCloser(t) - 1)

AfterTag(t) == SubSeq(t, FirstCloser(t) + 1, Len(t))

\* the bytes of the message write for the displayed message m
Shown(m) ==
    LET n == VisibleWidth(log[1].bytes)
        body == IF cfg.IndentMultilineMessage /\ (\E i \in 1..Len(m) : m[i] = 10)
                THEN Flatten([i \in 1..Len(m) |->
                                IF m[i] = 10 THEN <<10>> \o Spaces(n) ELSE <<m[i]>>])
                ELSE m
    IN body \o Spaces(cfg.SpacePadding - Len(body))

TagRendered(tag) == Occurs(<<32>> \o ansiCyan \o tag \o <<58>> \o reset \o <<32>>, log[1].bytes)

NoTagRendered == ~Occurs(ansiCyan, log[1].bytes)

Colored == Called /\ ~Plain

(***************************************************************************)
(* C7 as stated: in colored mode a "prefix" entry gives the tag and leaves *)
(* the message unchanged; otherwise a message starting with [<tag>] gives  *)
(* the tag <tag> and is displayed as its remainder with the whitespace     *)
(* after the bracket stripped and nothing else removed; otherwise there is *)
(* no tag and the message is unchanged.                                    *)
(***************************************************************************)
C7_OnlyLeadingStripped ==
    Colored =>
        IF sPrefix \in DOMAIN entry.Data
        THEN /\ TagRendered(Sprint(entry.Data[sPrefix]))
             /\ log[2].bytes = Shown(entry.Message)
        ELSE IF StartsWithTag(entry.Message)
             THEN /\ TagRendered(TagOf(entry.Message))
                  /\ log[2].bytes = Shown(StripLeading(AfterTag(entry.Message)))
             ELSE /\ NoTagRendered
                  /\ log[2].bytes = Shown(entry.Message)

(***************************************************************************)
(* C7 amended: in colored mode a "prefix" entry gives the tag and leaves   *)
(* the message unchanged; otherwise a message starting with [<tag>], where *)
(* <tag> is not empty, holds no newline and ends at the first ']', gives   *)
(* the tag <tag> and is displayed as its remainder with all leading and    *)
(* all trailing whitespace stripped; otherwise there is no tag and the     *)
(* message is unchanged.                                                   *)
(***************************************************************************)
C7_PrefixChoice ==
    Colored =>
        IF sPrefix \in DOMAIN entry.Data
        THEN /\ TagRendered(Sprint(entry.Data[sPrefix]))
             /\ log[2].bytes = Shown(entry.Message)
        ELSE IF StartsWithTag(entry.Message)
             THEN /\ TagRendered(TagOf(entry.Message))
                  /\ log[2].bytes = Shown(StripBoth(AfterTag(entry.Message)))
             ELSE /\ NoTagRendered
                  /\ log[2].bytes = Shown(entry.Message)

C7_Witness ==
    /\ Colored
    /\ sPrefix \notin DOMAIN entry.Data
    /\ entry.Message = <<91, 119, 93, 32, 32, 97, 32, 98, 32, 10>>
    /\ cfg.SpacePadding = 0
    /\ TagRendered(<<119>>)
    /\ log[2].bytes = <<97, 32, 98>>

(***************************************************************************)
(* C8: in colored mode with indentMultilineMessage and a displayed message *)
(* holding a newline, every newline of the written message is followed by  *)
(* exactly N spaces, N being the bytes of the header less the bytes of its *)
(* color-control sequences.                                                *)
(***************************************************************************)
Newlines(t) == {i \in 1..Len(t) : t[i] = 10}

\* the message as displayed: the remainder after a leading tag, or the message
Displayed ==
    IF sPrefix \notin DOMAIN entry.Data /\ StartsWithTag(entry.Message)
    THEN StripBoth(AfterTag(entry.Message))
    ELSE entry.Message

Indenting == Colored /\ cfg.IndentMultilineMessage /\ Newlines(Displayed) # {}

Max(a, b) == IF a > b THEN a ELSE b

C8_IndentWidth ==
    Indenting =>
        LET w == log[2].bytes
            n == VisibleWidth(log[1].bytes)
        IN /\ \A i \in Newlines(w) :
                 /\ i + n <= Len(w)
                 /\ \A j \in 1..n : w[i + j] = 32
           /\ Cardinality(Newlines(w)) = Cardinality(Newlines(Displayed))
           /\ Len(w) = Max(Len(Displayed) + n * Cardinality(Newlines(Displayed)),
                           cfg.SpacePadding)

C8_Witness ==
    /\ Indenting
    /\ entry.Level = "DebugLevel"
    /\ TagRendered(<<119>>)
    /\ cfg.ShortTimestamp /\ ~cfg.DisableTimestamp
    /\ Cardinality(Newlines(log[2].bytes)) = 2
    /\ VisibleWidth(log[1].bytes) = 34

(***************************************************************************)
(* C9: after any number of Format calls the key set of the mapping is the  *)
(* caller's key set plus fields.<name> for each of time, msg, level that   *)
(* was a caller's key; the first call reaches it, no later call adds a     *)
(* key, and no key fields.fields.<name> is ever created.                   *)
(***************************************************************************)
HasPrefix(t, p) == Len(t) >= Len(p) /\ SubSeq(t, 1, Len(p)) = p

C9_KeySetStable ==
    Called =>
        /\ DOMAIN entry.Data
              = (DOMAIN orig) \cup {sFields \o name : name \in Reserved \cap DOMAIN orig}
        /\ calls >= 2 => DOMAIN entry.Data = DOMAIN arg.Data
        /\ \A k \in (DOMAIN entry.Data) \ (DOMAIN orig) : ~HasPrefix(k, sFields \o sFields)

C9_Witness ==
    /\ calls = MaxCalls
    /\ DOMAIN orig = {sMsg, sLevel}
    /\ DOMAIN arg.Data = {sMsg, sLevel, sFieldsMsg, sFieldsLevel}
    /\ DOMAIN entry.Data = {sMsg, sLevel, sFieldsMsg, sFieldsLevel}

(***************************************************************************)
(* C10: Format never removes an entry the caller put in the mapping nor    *)
(* changes its value: after any number of calls every original key is      *)
(* present with its original value.                                        *)
(***************************************************************************)
C10_OriginalEntriesKept ==
    \A k \in DOMAIN orig : k \in DOMAIN entry.Data /\ entry.Data[k] = orig[k]

====
